---- MODULE Spec2Model ----
(***************************************************************************)
(* Model of the gollipse ellipse package: the Ellipse constructors (New,   *)
(* NewDataConfidence, NewWithConfidence, NewWithDataConfidence), the curve *)
(* generator LinePoints and the accessors Eccentricity and String.         *)
(*                                                                         *)
(* float64 values are modelled as IEEE-style values: NaN, +Inf, -Inf, or a *)
(* finite fixed-point number n standing for n / Scale.  Comparisons with   *)
(* NaN are false, Inf * 0 and Inf - Inf are NaN, x / 0 is +-Inf or NaN.    *)
(* A panic is modelled as the outcome "panic" of the call, after which the *)
(* caller (as the tests do with assert.Panics) carries on.                 *)
(***************************************************************************)
EXTENDS Integers, Sequences, FiniteSets, TLC

\* ------------------------------------------------------------------ bounds
\* resolution of the fixed-point numbers: n stands for n / Scale
Scale == 100
\* largest size passed to LinePoints
MaxSize == 5
\* largest number of samples in a coordinate slice
MaxLen == 3

\* ----------------------------------------------------------- integer helpers
Abs(n) == IF n < 0 THEN -n ELSE n
Sgn(n) == IF n < 0 THEN -1 ELSE IF n > 0 THEN 1 ELSE 0
\* division rounded to the nearest integer
RDiv(n, d) == Sgn(n) * Sgn(d) * ((2 * Abs(n) + Abs(d)) \div (2 * Abs(d)))

RECURSIVE SqrtIter(_, _)
SqrtIter(n, r) == IF r * r <= n /\ (r + 1) * (r + 1) > n THEN r
                  ELSE SqrtIter(n, (r + n \div r) \div 2)
\* integer square root, rounded down (Newton's iteration from above)
ISqrt(n) == IF n <= 0 THEN 0 ELSE SqrtIter(n, IF n < 46339 THEN n ELSE 46339)

\* ------------------------------------------------------------------ float64
NaN == [k |-> "nan", v |-> 0]
PosInf == [k |-> "inf", v |-> 1]
NegInf == [k |-> "inf", v |-> -1]
Fin(n) == [k |-> "fin", v |-> n]
Zero == Fin(0)
One == Fin(Scale)
IsNaN(f) == f.k = "nan"
IsInf(f) == f.k = "inf"
IsFinite(f) == f.k = "fin"
Inf(s) == IF s < 0 THEN NegInf ELSE PosInf
Sign(f) == IF IsNaN(f) THEN 0 ELSE Sgn(f.v)

\* Go's <, ==, <=, > on float64: every comparison with NaN is false
FLt(x, y) ==
    IF IsNaN(x) \/ IsNaN(y) THEN FALSE
    ELSE IF IsInf(x) THEN x.v < 0 /\ ~(IsInf(y) /\ y.v < 0)
    ELSE IF IsInf(y) THEN y.v > 0
    ELSE x.v < y.v
FEq(x, y) == ~IsNaN(x) /\ ~IsNaN(y) /\ x = y
FLeq(x, y) == FLt(x, y) \/ FEq(x, y)
FGt(x, y) == FLt(y, x)

FNeg(x) == IF IsNaN(x) THEN NaN ELSE [x EXCEPT !.v = -x.v]
FAdd(x, y) ==
    IF IsNaN(x) \/ IsNaN(y) THEN NaN
    ELSE IF IsInf(x) /\ IsInf(y) THEN (IF x.v = y.v THEN x ELSE NaN)
    ELSE IF IsInf(x) THEN x
    ELSE IF IsInf(y) THEN y
    ELSE Fin(x.v + y.v)
FSub(x, y) == FAdd(x, FNeg(y))
FMul(x, y) ==
    IF IsNaN(x) \/ IsNaN(y) THEN NaN
    ELSE IF IsInf(x) \/ IsInf(y)
         THEN (IF Sign(x) = 0 \/ Sign(y) = 0 THEN NaN ELSE Inf(Sign(x) * Sign(y)))
    ELSE Fin(RDiv(x.v * y.v, Scale))
FDiv(x, y) ==
    IF IsNaN(x) \/ IsNaN(y) THEN NaN
    ELSE IF IsInf(x)
         THEN (IF IsInf(y) THEN NaN ELSE Inf(x.v * (IF y.v < 0 THEN -1 ELSE 1)))
    ELSE IF IsInf(y) THEN Zero
    ELSE IF y.v = 0 THEN (IF x.v = 0 THEN NaN ELSE Inf(Sgn(x.v)))
    ELSE Fin(RDiv(x.v * Scale, y.v))
\* math.Sqrt: NaN for a negative argument
FSqrt(x) ==
    IF IsNaN(x) THEN NaN
    ELSE IF IsInf(x) THEN (IF x.v > 0 THEN PosInf ELSE NaN)
    ELSE IF x.v < 0 THEN NaN
    ELSE Fin(ISqrt(x.v * Scale))
\* float64(n) of an int
FInt(n) == Fin(n * Scale)

\* math.Pi and its multiples at the model's resolution
Pi == (314159 * Scale) \div 100000
TwoPi == (628318 * Scale) \div 100000
HalfPi == (157080 * Scale) \div 100000

\* cosine of a reduced argument 0 <= r <= Pi/2 by its Taylor polynomial
CosPoly(r) ==
    LET r2 == RDiv(r * r, Scale)
        r4 == RDiv(r2 * r2, Scale)
        r6 == RDiv(r4 * r2, Scale)
        r8 == RDiv(r4 * r4, Scale)
    IN  Scale - RDiv(r2, 2) + RDiv(r4, 24) - RDiv(r6, 720) + RDiv(r8, 40320)
\* the cosines of the reduced arguments, computed once
CosTable == [r \in 0..HalfPi |-> CosPoly(r)]
CosFix(n) ==
    LET m == Abs(n) % TwoPi
        h == IF m > Pi THEN TwoPi - m ELSE m
    IN  IF h <= HalfPi THEN CosTable[h] ELSE -CosTable[Pi - h]
\* math.Cos, math.Sin: NaN for NaN and for +-Inf
FCos(x) == IF IsFinite(x) THEN Fin(CosFix(x.v)) ELSE NaN
FSin(x) == IF IsFinite(x) THEN Fin(CosFix(x.v - HalfPi)) ELSE NaN

\* ------------------------------------------------------------------ Ellipse
Nil == [nil |-> TRUE]
\* &Ellipse{x, y, a, b, angle}
Ellipse(x, y, a, b, angle) ==
    [nil |-> FALSE, x |-> x, y |-> y, a |-> a, b |-> b, angle |-> angle]

\* a returned (*Ellipse, error) pair, with the statistics the call computed
Ret(e, er, st) == [ell |-> e, err |-> er, steps |-> st]

\* New(x, y, a, b, angle); the earlier revisions' New(a, b, angle) is the
\* case x = y = 0
\* New as it would be with a and b stored the wrong way round
NewAxisSwap(x, y, a, b, angle) ==
    IF FLeq(a, Zero) \/ FLeq(b, Zero)
    THEN Ret(Nil, "axis", {})
    ELSE Ret(Ellipse(x, y, b, a, angle), "nil", {})
\* New as it would be rejecting only when both axes are non-positive
NewAndCheck(x, y, a, b, angle) ==
    IF FLeq(a, Zero) /\ FLeq(b, Zero)
    THEN Ret(Nil, "axis", {})
    ELSE Ret(Ellipse(x, y, a, b, angle), "nil", {})
New(x, y, a, b, angle) ==
    IF FLeq(a, Zero) \/ FLeq(b, Zero)
    THEN Ret(Nil, "axis", {})
    ELSE Ret(Ellipse(x, y, a, b, angle), "nil", {})

\* New(a, b, angle) of the revisions before the centre was a parameter: the
\* Ellipse has no centre (or a zero-valued one) and its curve is not shifted
NewAxes(a, b, angle) ==
    IF FLeq(a, Zero) \/ FLeq(b, Zero)
    THEN Ret(Nil, "axis", {})
    ELSE Ret(Ellipse(Zero, Zero, a, b, angle), "nil", {})

\* ------------------------------------------------------- gonum: stat, distuv
\* sum of the elements of a slice of finite numbers, in fixed-point units
RECURSIVE SumV(_)
SumV(s) == IF s = <<>> THEN 0 ELSE Head(s).v + SumV(Tail(s))
RECURSIVE SumProdV(_, _)
SumProdV(s, t) ==
    IF s = <<>> THEN 0 ELSE Head(s).v * Head(t).v + SumProdV(Tail(s), Tail(t))

\* stat.Mean(col, nil): the arithmetic mean of a column
Mean(s) == FDiv(Fin(SumV(s)), FInt(Len(s)))

\* n * (scatter of the centred columns), n * sum((s_i - mean s)(t_i - mean t)),
\* brought back to fixed-point units
Scatter(s, t) == RDiv(Len(s) * SumProdV(s, t) - SumV(s) * SumV(t), Scale)

\* pc.PrincipalComponents(data, nil) with pc.VarsTo(nil) and pc.VectorsTo(nil):
\* the singular value decomposition of the centred data.  vars are the
\* squared singular values over n-1, in descending order, never negative;
\* vecs[i][j] is eigVecs.At(i-1, j-1), the columns being the unit directions.
\* The decomposition fixes each direction only up to its sign: s0 and s1 are
\* the signs the library happens to return.
PrincipalComponents(data, s0, s1) ==
    LET n == Len(data.x)
        sxx == Scatter(data.x, data.x)
        syy == Scatter(data.y, data.y)
        sxy == Scatter(data.x, data.y)
        D == ISqrt((sxx - syy) * (sxx - syy) + 4 * sxy * sxy)
        den == 2 * n * (n - 1)
        l0 == sxx + syy + D
        l1 == IF sxx + syy - D < 0 THEN 0 ELSE sxx + syy - D
        ux == IF sxy # 0 THEN sxx - syy + D ELSE IF sxx >= syy THEN 1 ELSE 0
        uy == IF sxy # 0 THEN 2 * sxy ELSE IF sxx >= syy THEN 0 ELSE 1
        norm == ISqrt(ux * ux + uy * uy)
        vx == RDiv(ux * Scale, norm)
        vy == RDiv(uy * Scale, norm)
    IN  [vars |-> <<Fin(RDiv(l0, den)), Fin(RDiv(l1, den))>>,
         vecs |-> << <<Fin(s0 * vx), Fin(-s1 * vy)>>,
                     <<Fin(s0 * vy), Fin(s1 * vx)>> >>]

\* arctangent of a ratio 0 <= r <= 1
AtanUnit(r) ==
    RDiv(r * Pi, 4 * Scale) + RDiv(273 * r * (Scale - r), 1000 * Scale)
\* math.Atan2(y, x) of finite arguments, in (-Pi, Pi]
Atan2Fix(y, x) ==
    LET ay == Abs(y)
        ax == Abs(x)
        t == IF ax = 0 /\ ay = 0 THEN 0
             ELSE IF ay <= ax THEN AtanUnit(RDiv(ay * Scale, ax))
             ELSE HalfPi - AtanUnit(RDiv(ax * Scale, ay))
        q == IF x < 0 THEN Pi - t ELSE t
    IN  IF y < 0 THEN -q ELSE q
Atan2(y, x) ==
    IF IsFinite(y) /\ IsFinite(x) THEN Fin(Atan2Fix(y.v, x.v)) ELSE NaN

\* natural logarithm of 0 < x <= 1: x is doubled into [1/2, 1], then
\* ln x = 2 atanh((x - 1) / (x + 1))
Ln2 == (69315 * Scale) \div 100000
LnNear1(x) ==
    LET z == RDiv((x - Scale) * Scale * 100, x + Scale)
        S == Scale * 100
        z2 == RDiv(z * z, S)
        z3 == RDiv(z2 * z, S)
        z5 == RDiv(z3 * z2, S)
        z7 == RDiv(z5 * z2, S)
    IN  RDiv(2 * (z + RDiv(z3, 3) + RDiv(z5, 5) + RDiv(z7, 7)), 100)
RECURSIVE LnFix(_)
LnFix(x) == IF 2 * x <= Scale THEN LnFix(2 * x) - Ln2 ELSE LnNear1(x)

\* distuv.ChiSquared{K: 2, Src: src}.Quantile(p), the inverse of the
\* distribution function 1 - exp(-q/2); the source src plays no part.  It
\* panics for p outside [0, 1]; the outcome for a NaN argument is the
\* library's: NaN or a panic.
Panicked == [k |-> "panic", v |-> 0]
Quantile(p) ==
    IF IsNaN(p) THEN {NaN, Panicked}
    ELSE IF FLt(p, Zero) \/ FGt(p, One) THEN {Panicked}
    ELSE IF FEq(p, One) THEN {PosInf}
    ELSE {Fin(-2 * LnFix(Scale - p.v))}

\* --------------------------------------------------- confidence constructors
Signs == {1, -1}

\* the angle of the ellipse from the principal component vectors
AngleOf(vecs) ==
    LET angle == Atan2(vecs[1][2], vecs[1][1])
    IN  IF FLt(angle, Zero) THEN FAdd(angle, Fin(TwoPi)) ELSE angle

\* NewWithDataConfidence(data, confidence) on an N x 2 matrix (NewWithConfidence
\* of the revision before it is the same code): the set of the returns the
\* library's choices allow.  data is Nil for a nil matrix, on which data.Dims()
\* panics.  With a single row the matrix of the component vectors has a single
\* column (d x min(n, d)), and eigVecs.At(0, 1) panics.
\* the confidence check as it would be rejecting confidence = 1 too
InvalidConfidenceOpen(confidence) ==
    FLeq(confidence, Zero) \/ ~FLt(confidence, One)
\* the confidence check: confidence <= 0 || confidence > 1
InvalidConfidence(confidence) ==
    FLeq(confidence, Zero) \/ FGt(confidence, One)

NewWithDataConfidence(data, confidence) ==
    IF InvalidConfidence(confidence)
    THEN {Ret(Nil, "confidence", {})}
    ELSE IF data = Nil
    THEN {Ret(Nil, "panic", {})}
    ELSE IF Len(data.x) < 2
    THEN {Ret(Nil, "panic", {"mean", "pc"})}
    ELSE LET xmean == Mean(data.x)
             ymean == Mean(data.y)
         IN  { LET pc == PrincipalComponents(data, s[1], s[2])
                   eigVals == pc.vars
                   angle == AngleOf(pc.vecs)
                   a == FSqrt(FMul(s[3], eigVals[1]))
                   b == FSqrt(FMul(s[3], eigVals[2]))
               IN  IF s[3] = Panicked
                   THEN Ret(Nil, "panic", {"mean", "pc", "quantile"})
                   ELSE Ret(Ellipse(xmean, ymean, a, b, angle), "nil",
                            {"mean", "pc", "quantile"})
               : s \in Signs \X Signs \X Quantile(confidence) }

\* NewDataConfidence(x, y, confidence) on two coordinate slices; its Ellipse
\* has no centre, which is the centre (0, 0)
\* the checks as they would be with the confidence looked at first
DataChecksConfidenceFirst(x, y, confidence) ==
    IF FLeq(confidence, Zero) \/ FGt(confidence, One) THEN "confidence"
    ELSE IF Len(x) = 0 \/ Len(y) = 0 THEN "panic"
    ELSE IF Len(x) # Len(y) THEN "panic"
    ELSE "ok"
\* the checks of NewDataConfidence, in the order of the code: "ok" when all pass
DataChecks(x, y, confidence) ==
    IF Len(x) = 0 \/ Len(y) = 0 THEN "panic"
    ELSE IF Len(x) # Len(y) THEN "panic"
    ELSE IF FLeq(confidence, Zero) \/ FGt(confidence, One) THEN "confidence"
    ELSE "ok"

NewDataConfidence(x, y, confidence) ==
    IF DataChecks(x, y, confidence) # "ok"
    THEN {Ret(Nil, DataChecks(x, y, confidence), {})}
    ELSE IF Len(x) < 2
    THEN {Ret(Nil, "panic", {"pc"})}
    ELSE { LET pc == PrincipalComponents([x |-> x, y |-> y], s[1], s[2])
               eigVals == pc.vars
               angle == AngleOf(pc.vecs)
               a == FMul(FSqrt(s[3]), FSqrt(eigVals[1]))
               b == FMul(FSqrt(s[3]), FSqrt(eigVals[2]))
           IN  IF s[3] = Panicked
               THEN Ret(Nil, "panic", {"pc", "quantile"})
               ELSE Ret(Ellipse(Zero, Zero, a, b, angle), "nil", {"pc", "quantile"})
           : s \in Signs \X Signs \X Quantile(confidence) }

\* ------------------------------------------------------------- LinePoints
\* floats.Span(make([]float64, size), 0, 2*math.Pi): size evenly spaced values;
\* make panics for a negative size and Span for fewer than two elements
Span(size, l, u) ==
    LET step == FDiv(FSub(u, l), FInt(size - 1))
    IN  [i \in 1..size |-> FAdd(l, FMul(step, FInt(i - 1)))]

XY(x, y) == [X |-> x, Y |-> y]

\* the point as it would be with the centre added before the rotation
EllipseXYShiftFirst(e, t) ==
    LET x == FAdd(FMul(e.a, FCos(t)), e.x)
        y == FAdd(FMul(e.b, FSin(t)), e.y)
        r11 == FCos(e.angle)
        r12 == FSin(e.angle)
        r21 == FNeg(FSin(e.angle))
        r22 == FCos(e.angle)
    IN  XY(FAdd(FMul(x, r11), FMul(y, r21)),
           FAdd(FMul(x, r12), FMul(y, r22)))
\* the point as it would be with the rotation matrix transposed (clockwise)
EllipseXYClockwise(e, t) ==
    LET x == FMul(e.a, FCos(t))
        y == FMul(e.b, FSin(t))
        r11 == FCos(e.angle)
        r12 == FNeg(FSin(e.angle))
        r21 == FSin(e.angle)
        r22 == FCos(e.angle)
    IN  XY(FAdd(FAdd(FMul(x, r11), FMul(y, r21)), e.x),
           FAdd(FAdd(FMul(x, r12), FMul(y, r22)), e.y))
\* the point of parameter t: (a cos t, b sin t), multiplied as a row vector by
\* the matrix rotateMx and shifted by the centre
EllipseXY(e, t) ==
    LET x == FMul(e.a, FCos(t))
        y == FMul(e.b, FSin(t))
        r11 == FCos(e.angle)
        r12 == FSin(e.angle)
        r21 == FNeg(FSin(e.angle))
        r22 == FCos(e.angle)
    IN  XY(FAdd(FAdd(FMul(x, r11), FMul(y, r21)), e.x),
           FAdd(FAdd(FMul(x, r12), FMul(y, r22)), e.y))

\* plotter.CheckFloats over the points in order, X before Y: the first value
\* that is NaN or infinite decides the error
RECURSIVE CheckFloats(_)
CheckFloats(xys) ==
    IF xys = <<>> THEN "nil"
    ELSE IF IsNaN(Head(xys).X) THEN "ErrNaN"
    ELSE IF IsInf(Head(xys).X) THEN "ErrInfinity"
    ELSE IF IsNaN(Head(xys).Y) THEN "ErrNaN"
    ELSE IF IsInf(Head(xys).Y) THEN "ErrInfinity"
    ELSE CheckFloats(Tail(xys))

\* plotter.NewLinePoints as it would be without the check of the values
NewLinePointsUnchecked(xys) == [line |-> xys, points |-> xys, err |-> "nil"]
\* plotter.NewLinePoints(xys): a line and a scatter over a copy of the points,
\* or nil, nil and the error of the first bad value
NewLinePoints(xys) ==
    IF CheckFloats(xys) # "nil"
    THEN [line |-> Nil, points |-> Nil, err |-> CheckFloats(xys)]
    ELSE [line |-> xys, points |-> xys, err |-> "nil"]

\* e.LinePoints(size); made tells whether the points were generated and xys
\* records the points handed to plotter.NewLinePoints
LinePoints(e, size) ==
    IF size < 2
    THEN [size |-> size, made |-> FALSE, xys |-> <<>>,
          line |-> Nil, points |-> Nil, err |-> "panic"]
    ELSE LET points == Span(size, Zero, Fin(TwoPi))
             ellipseXYs == [i \in 1..size |-> EllipseXY(e, points[i])]
             r == NewLinePoints(ellipseXYs)
         IN  [size |-> size, made |-> TRUE, xys |-> ellipseXYs,
              line |-> r.line, points |-> r.points, err |-> r.err]

\* e.Eccentricity()
Eccentricity(e) == FSqrt(FSub(One, FDiv(FMul(e.a, e.a), FMul(e.b, e.b))))

\* the verb %.2f of fmt.Sprintf: NaN, +Inf, -Inf, or the sign, the whole part
\* and the two decimals of the value rounded to hundredths
Sprintf2f(f) ==
    IF IsNaN(f) THEN <<"NaN">>
    ELSE IF IsInf(f) THEN (IF f.v > 0 THEN <<"+Inf">> ELSE <<"-Inf">>)
    ELSE LET h == Abs(RDiv(f.v * 100, Scale))
         IN  <<IF f.v < 0 THEN "-" ELSE "", h \div 100, h % 100>>
\* e.String(): the fields of "Ellipse{x: , y: , a: , b: , angle: }" in order
String(e) ==
    <<Sprintf2f(e.x), Sprintf2f(e.y), Sprintf2f(e.a), Sprintf2f(e.b),
      Sprintf2f(e.angle)>>

\* ------------------------------------------------------------------- inputs
AxisVals == {NaN, PosInf, NegInf, Fin(-Scale), Zero, One, Fin(3 * Scale),
             Fin(10 * Scale), Fin(50 * Scale)}
AngleVals == {NaN, PosInf, Zero, Fin(HalfPi), Fin(Pi), Fin((-56 * Scale) \div 10),
              Fin((203 * Scale) \div 10)}
Centres == {<<Zero, Zero>>, <<Fin(10 * Scale), Fin(-10 * Scale)>>, <<PosInf, NaN>>}
Confidences == {NaN, Fin(-Scale), Zero, Fin(Scale \div 20), Fin(Scale \div 2),
                Fin((95 * Scale) \div 100), One, Fin((3 * Scale) \div 2),
                Fin(2 * Scale)}
DataVals == {One, Fin(2 * Scale)}
Slices == UNION {[1..n -> DataVals] : n \in 0..MaxLen}
\* the N x 2 matrices mat.NewDense can build (N >= 1), and the nil matrix
Matrices ==
    UNION {{[x |-> x, y |-> y] : x, y \in [1..n -> DataVals]} : n \in 1..MaxLen}
Sizes == -1..MaxSize

\* -------------------------------------------------------------------- state
VARIABLES
    ell,    \* the *Ellipse the caller holds, Nil before and after a failed call
    err,    \* the outcome of the constructor call: "nil", an error or "panic"
    call,   \* the constructor call made, with its arguments
    steps,  \* the statistics that call computed
    lp,     \* the last LinePoints call and what it returned
    ecc,    \* the last Eccentricity call and what it returned
    str,    \* the last String call and what it returned
    dataset \* the caller's slices or matrix as the constructor call left them

vars == <<ell, err, call, steps, lp, ecc, str, dataset>>

NoCall == [op |-> "none"]
NotCalled == [called |-> FALSE]

Init ==
    /\ ell = Nil
    /\ err = "nil"
    /\ call = NoCall
    /\ steps = {}
    /\ lp = NotCalled
    /\ ecc = NotCalled
    /\ str = NotCalled
    /\ dataset = Nil

Returned(r) ==
    /\ ell' = r.ell
    /\ err' = r.err
    /\ steps' = r.steps
    /\ UNCHANGED <<lp, ecc, str>>

CallNew ==
    /\ call = NoCall
    /\ \E c \in Centres, a \in AxisVals, b \in AxisVals, angle \in AngleVals :
          /\ call' = [op |-> "New", x |-> c[1], y |-> c[2], a |-> a, b |-> b,
                      angle |-> angle]
          /\ Returned(New(c[1], c[2], a, b, angle))
    /\ UNCHANGED dataset

CallNewAxes ==
    /\ call = NoCall
    /\ \E a \in AxisVals, b \in AxisVals, angle \in AngleVals :
          /\ call' = [op |-> "NewAxes", a |-> a, b |-> b, angle |-> angle]
          /\ Returned(NewAxes(a, b, angle))
    /\ UNCHANGED dataset

CallNewDataConfidence ==
    /\ call = NoCall
    /\ \E x \in Slices, y \in Slices, confidence \in Confidences :
          /\ call' = [op |-> "NewDataConfidence", data |-> [x |-> x, y |-> y],
                      confidence |-> confidence]
          /\ \E r \in NewDataConfidence(x, y, confidence) : Returned(r)
          \* x and y are only read: data.SetCol copies them into a new matrix
          /\ dataset' = [x |-> x, y |-> y]

CallNewWithDataConfidence ==
    /\ call = NoCall
    /\ \E data \in Matrices \cup {Nil}, confidence \in Confidences :
          /\ call' = [op |-> "NewWithDataConfidence", data |-> data,
                      confidence |-> confidence]
          /\ \E r \in NewWithDataConfidence(data, confidence) : Returned(r)
          \* data is only read: mat.Col copies a column into vals, and the
          \* principal components are those of a centred copy
          /\ dataset' = data

\* Within one session the caller asks for the curve, for the eccentricity and
\* for the text once each, in any order: all are functions of the Ellipse alone,
\* which no call changes, so a repeated call returns what the first did.
CallLinePoints ==
    /\ ell # Nil
    /\ ~lp.called
    /\ \E size \in Sizes :
          lp' = [called |-> TRUE] @@ LinePoints(ell, size)
    /\ UNCHANGED <<ell, err, call, steps, ecc, str, dataset>>

\* Eccentricity as it would be putting the axes in order first, a <= b, so
\* that the root is real
CallEccentricityOrdering ==
    /\ ell # Nil
    /\ ~ecc.called
    /\ ell' = IF FGt(ell.a, ell.b) THEN [ell EXCEPT !.a = ell.b, !.b = ell.a]
              ELSE ell
    /\ ecc' = [called |-> TRUE, val |-> Eccentricity(ell')]
    /\ UNCHANGED <<err, call, steps, lp, str, dataset>>
CallEccentricity ==
    /\ ell # Nil
    /\ ~ecc.called
    /\ ecc' = [called |-> TRUE, val |-> Eccentricity(ell)]
    /\ UNCHANGED <<ell, err, call, steps, lp, str, dataset>>

CallString ==
    /\ ell # Nil
    /\ ~str.called
    /\ str' = [called |-> TRUE, val |-> String(ell)]
    /\ UNCHANGED <<ell, err, call, steps, lp, ecc, dataset>>

\* the caller lets go of the ellipse and its results and starts afresh
Drop ==
    /\ call # NoCall
    /\ ell' = Nil
    /\ err' = "nil"
    /\ call' = NoCall
    /\ steps' = {}
    /\ lp' = NotCalled
    /\ ecc' = NotCalled
    /\ str' = NotCalled
    /\ dataset' = Nil

Next ==
    \/ CallNew
    \/ CallNewAxes
    \/ CallNewDataConfidence
    \/ CallNewWithDataConfidence
    \/ CallLinePoints
    \/ CallEccentricity
    \/ CallString
    \/ Drop

Spec == Init /\ [][Next]_vars

\* ------------------------------------------------------------------- claims
ConfidenceOps == {"NewDataConfidence", "NewWithDataConfidence"}
FiniteXY(p) == IsFinite(p.X) /\ IsFinite(p.Y)
\* a confidence that is <= 0 or > 1
OutsideUnitInterval(c) == FLeq(c, Zero) \/ FGt(c, One)

\* C1: whenever New is called with a <= 0 or b <= 0 (either alone, whatever
\* the angle and the centre), it fails with the axis error and returns nil.
C1_NewRejectsNonPositiveAxis ==
    (call.op = "New" /\ (FLeq(call.a, Zero) \/ FLeq(call.b, Zero)))
        => (err = "axis" /\ ell = Nil)
\* New was called with a valid a and b = 0 alone, and failed
C1_Witness ==
    /\ call.op = "New"
    /\ FGt(call.a, Zero)
    /\ call.b = Zero
    /\ err = "axis"
    /\ ell = Nil

\* C2: whenever New is called with a > 0 and b > 0, whatever the angle, it
\* succeeds and the Ellipse holds exactly the a, b and angle supplied.
C2_NewStoresAxesAsGiven ==
    (call.op = "New" /\ FGt(call.a, Zero) /\ FGt(call.b, Zero))
        => /\ err = "nil"
           /\ ell # Nil
           /\ ell.a = call.a
           /\ ell.b = call.b
           /\ ell.angle = call.angle
\* New succeeded with a # b and a negative angle, kept as given
C2_Witness ==
    /\ call.op = "New"
    /\ call.a = One
    /\ call.b = Fin(3 * Scale)
    /\ FLt(call.angle, Zero)
    /\ ell # Nil
    /\ ell.a = One
    /\ ell.b = Fin(3 * Scale)
    /\ ell.angle = call.angle

\* C3 as stated: every confidence constructor fails with the confidence error
\* and returns nil if and only if confidence <= 0 or confidence > 1, and a
\* rejected call has computed no statistics.
C3_Original ==
    (call.op \in ConfidenceOps)
        => /\ (err = "confidence" /\ ell = Nil) <=> OutsideUnitInterval(call.confidence)
           /\ (err = "confidence" => steps = {})
\* the data checks of NewDataConfidence: both slices non-empty, of one length
SlicesAccepted == Len(call.data.x) > 0 /\ Len(call.data.y) = Len(call.data.x)
\* C3 amended: the matrix constructors fail with the confidence error and
\* return nil if and only if confidence <= 0 or confidence > 1;
\* NewDataConfidence does so if and only if, besides, x and y are non-empty
\* and of equal length (its data checks come first and panic).  A rejected
\* call has computed no statistics.
C3_ConfidenceRejectedIff ==
    (call.op \in ConfidenceOps)
        => /\ (err = "confidence" /\ ell = Nil)
                <=> /\ OutsideUnitInterval(call.confidence)
                    /\ (call.op = "NewDataConfidence" => SlicesAccepted)
           /\ (err = "confidence" => steps = {})
\* a confidence above 1 was rejected on acceptable data, nothing computed
C3_Witness ==
    /\ call.op = "NewWithDataConfidence"
    /\ call.data # Nil
    /\ FGt(call.confidence, One)
    /\ err = "confidence"
    /\ ell = Nil
    /\ steps = {}

\* C4 as stated: with x empty or x and y of different lengths the confidence
\* constructor returns a data error (an error value, no panic) whatever the
\* confidence, before any statistics are computed.
C4_Original ==
    (call.op = "NewDataConfidence"
        /\ (Len(call.data.x) = 0 \/ Len(call.data.x) # Len(call.data.y)))
        => (err = "data" /\ ell = Nil /\ steps = {})
\* C4 amended: with x empty, y empty or x and y of different lengths
\* NewDataConfidence panics, returning neither an Ellipse nor an error value,
\* whatever the confidence (valid or not) and before any statistics are
\* computed.
C4_BadSlicesPanic ==
    (call.op = "NewDataConfidence" /\ ~SlicesAccepted)
        => (err = "panic" /\ ell = Nil /\ steps = {})
\* mismatched slices with an invalid confidence: the panic came first
C4_Witness ==
    /\ call.op = "NewDataConfidence"
    /\ Len(call.data.x) = 2
    /\ Len(call.data.y) = 1
    /\ OutsideUnitInterval(call.confidence)
    /\ err = "panic"
    /\ steps = {}

\* the ellipse of the tests: a = 1, b = 3, angle = pi, centred at the origin
IsTestEllipse(e) ==
    e # Nil /\ e.a = One /\ e.b = Fin(3 * Scale) /\ e.angle = Fin(Pi)
        /\ e.x = Zero /\ e.y = Zero

\* C5: for every size N >= 1, N = 1 included, LinePoints(N) on the ellipse
\* (a=1, b=3, angle=pi) returns without error exactly N points, all finite;
\* and whatever the ellipse, the points returned are as many as asked for.
C5_SizePointsForEverySizeFromOne ==
    /\ (lp.called /\ lp.size >= 1 /\ IsTestEllipse(ell))
          => /\ lp.err = "nil"
             /\ lp.points # Nil
             /\ Len(lp.points) = lp.size
             /\ \A i \in 1..lp.size : FiniteXY(lp.points[i])
    /\ (lp.called /\ lp.points # Nil) => Len(lp.points) = lp.size

\* C6: LinePoints with size 0 or a negative size returns a size error to its
\* caller, and neither a line nor points; it does not panic.
C6_BadSizeReturnsError ==
    (lp.called /\ lp.size <= 0)
        => (lp.err \notin {"nil", "panic"} /\ lp.line = Nil /\ lp.points = Nil)

\* C7: if any coordinate of a generated point, rotated and shifted, is NaN or
\* infinite, LinePoints returns an error with a nil line and nil points; a
\* line or point set it does return is the generated sequence unchanged and
\* wholly finite.
C7_NonFiniteCoordinateIsAnError ==
    lp.called =>
        /\ (lp.made /\ \E i \in 1..Len(lp.xys) : ~FiniteXY(lp.xys[i]))
              => (lp.err \in {"ErrNaN", "ErrInfinity"}
                    /\ lp.line = Nil /\ lp.points = Nil)
        /\ \A r \in {lp.line, lp.points} :
              r # Nil => (r = lp.xys /\ \A i \in 1..Len(r) : FiniteXY(r[i]))
\* an infinite a under a finite angle and centre made an infinite coordinate:
\* the curve was refused whole
C7_Witness ==
    /\ lp.called
    /\ lp.made
    /\ IsInf(ell.a)
    /\ IsFinite(ell.b) /\ IsFinite(ell.angle) /\ IsFinite(ell.x) /\ IsFinite(ell.y)
    /\ \E i \in 1..Len(lp.xys) : IsInf(lp.xys[i].X)
    /\ lp.err = "ErrInfinity"
    /\ lp.line = Nil
    /\ lp.points = Nil

\* C8, for the ellipses whose axes are finite: every Ellipse a constructor
\* returns without error has a > 0 and b > 0; so has the one built from the
\* collinear data x = [1, 2], y = [1, 2] with confidence 0.05.
C8_ConstructedAxesPositive ==
    (ell # Nil /\ IsFinite(ell.a) /\ IsFinite(ell.b))
        => (FGt(ell.a, Zero) /\ FGt(ell.b, Zero))

\* C9, for the ellipses whose axes are finite: the eccentricity of every
\* Ellipse a constructor returns is a real number in [0, 1), and is 0 only
\* when a = b.
C9_EccentricityInUnitInterval ==
    (ell # Nil /\ ecc.called /\ IsFinite(ell.a) /\ IsFinite(ell.b))
        => /\ IsFinite(ecc.val)
           /\ FLeq(Zero, ecc.val)
           /\ FLt(ecc.val, One)
           /\ (ecc.val = Zero => ell.a = ell.b)

\* what the confidence constructor of the call made returns for another
\* confidence on the same data
Rebuilt(c) ==
    IF call.op = "NewDataConfidence"
    THEN NewDataConfidence(call.data.x, call.data.y, c)
    ELSE NewWithDataConfidence(call.data, c)
\* C10: for data the confidence constructor accepts and confidence levels
\* c1 < c2 in (0, 1), the ellipse built with c2 has a strictly larger a and a
\* strictly larger b than the one built with c1, and the same centre and
\* angle (the library's choice of the directions' signs being the same).
C10_AxesGrowWithConfidence ==
    (call.op \in ConfidenceOps /\ ell # Nil
        /\ FLt(Zero, call.confidence) /\ FLt(call.confidence, One))
        => \A c2 \in Confidences :
              (FLt(call.confidence, c2) /\ FLt(c2, One))
                 => \A r \in Rebuilt(c2) :
                       (r.ell # Nil /\ r.ell.angle = ell.angle)
                          => /\ FGt(r.ell.a, ell.a)
                             /\ FGt(r.ell.b, ell.b)
                             /\ r.ell.x = ell.x
                             /\ r.ell.y = ell.y

\* m is the arithmetic mean of the column col, to the nearest unit
IsMeanOf(m, col) ==
    IsFinite(m) /\ 2 * Abs(Len(col) * m.v - SumV(col)) <= Len(col)
\* the ellipse e moved to the origin
AtOrigin(e) == [e EXCEPT !.x = Zero, !.y = Zero]
\* the point p moved by (dx, dy)
Shifted(p, dx, dy) == XY(FAdd(p.X, dx), FAdd(p.Y, dy))
\* the parameters of the size points of a curve: 0 to 2 pi, evenly spaced
Angles(size) == Span(size, Zero, Fin(TwoPi))
\* every point LinePoints returned is the point of the same ellipse centred
\* at the origin (the rotated boundary point), shifted by the centre
ShiftedAfterRotation ==
    (lp.called /\ lp.points # Nil)
        => \A i \in 1..lp.size :
              lp.points[i] = Shifted(EllipseXY(AtOrigin(ell), Angles(lp.size)[i]),
                                     ell.x, ell.y)
\* C11 as stated: the centre of an ellipse built by a confidence constructor
\* is the mean of the X column and of the Y column of the data; every point
\* LinePoints returns is the rotated boundary point shifted by that centre,
\* after the rotation; an ellipse built from axes alone is centred at the
\* origin.
C11_Original ==
    /\ (call.op \in ConfidenceOps /\ ell # Nil)
          => (IsMeanOf(ell.x, call.data.x) /\ IsMeanOf(ell.y, call.data.y))
    /\ ShiftedAfterRotation
    /\ (call.op = "NewAxes" /\ ell # Nil) => (ell.x = Zero /\ ell.y = Zero)
\* C11 amended: the centre of an ellipse built by the matrix constructor
\* NewWithDataConfidence is the mean of the X column and of the Y column of
\* the data; the ellipse NewDataConfidence builds from two slices has no
\* centre and is centred at the origin whatever the data, as is one built
\* from axes alone, and New keeps the centre it is given.  Every point
\* LinePoints returns is the rotated boundary point shifted by the centre of
\* the ellipse, after the rotation.
C11_CentreIsMeanShiftAfterRotation ==
    /\ (call.op = "NewWithDataConfidence" /\ ell # Nil)
          => (IsMeanOf(ell.x, call.data.x) /\ IsMeanOf(ell.y, call.data.y))
    /\ (call.op \in {"NewDataConfidence", "NewAxes"} /\ ell # Nil)
          => (ell.x = Zero /\ ell.y = Zero)
    /\ (call.op = "New" /\ ell # Nil) => (ell.x = call.x /\ ell.y = call.y)
    /\ ShiftedAfterRotation
\* an ellipse built from the rows (1,1), (2,1), (2,2) is centred at their
\* mean (5/3, 4/3), and its curve of five points was returned around it
C11_Witness ==
    /\ call.op = "NewWithDataConfidence"
    /\ call.data # Nil
    /\ call.data.x = <<One, Fin(2 * Scale), Fin(2 * Scale)>>
    /\ call.data.y = <<One, One, Fin(2 * Scale)>>
    /\ ell # Nil
    /\ ell.x = Fin((5 * Scale + 1) \div 3)
    /\ ell.y = Fin((4 * Scale + 1) \div 3)
    /\ ell.angle # Zero
    /\ lp.called
    /\ lp.size = 5
    /\ lp.points # Nil
    /\ lp.points[1] # EllipseXY(AtOrigin(ell), Zero)

\* the point p turned counter-clockwise by the angle A about the origin
RotatedCCW(p, A) ==
    XY(FSub(FMul(p.X, FCos(A)), FMul(p.Y, FSin(A))),
       FAdd(FMul(p.X, FSin(A)), FMul(p.Y, FCos(A))))
\* the ellipse of the simple example: a = 50, b = 10, angle = pi/2, at the origin
IsExampleEllipse(e) ==
    e # Nil /\ e.a = Fin(50 * Scale) /\ e.b = Fin(10 * Scale)
        /\ e.angle = Fin(HalfPi) /\ e.x = Zero /\ e.y = Zero
\* C13: every point LinePoints returns is the boundary point (a cos t, b sin t)
\* turned counter-clockwise by the angle of the ellipse (and shifted by its
\* centre); so on the origin-centred ellipse a = 50, b = 10, angle = pi/2 the
\* point of t = 0 lies on the Y axis at distance 50 and the point of
\* t = pi/2 on the X axis at distance 10.
C13_RotationIsCounterClockwise ==
    /\ (lp.called /\ lp.points # Nil)
          => \A i \in 1..lp.size :
                LET t == Angles(lp.size)[i]
                IN  lp.points[i] =
                       Shifted(RotatedCCW(XY(FMul(ell.a, FCos(t)),
                                             FMul(ell.b, FSin(t))), ell.angle),
                               ell.x, ell.y)
    /\ (lp.called /\ lp.size = 5 /\ IsExampleEllipse(ell))
          => /\ lp.points # Nil
             /\ lp.points[1] = XY(Zero, Fin(50 * Scale))
             /\ lp.points[2] = XY(Fin(-10 * Scale), Zero)
\* the curve of the example ellipse was asked for with five points: the
\* second one, of t = pi/2, is on the X axis
C13_Witness ==
    /\ lp.called
    /\ lp.size = 5
    /\ IsExampleEllipse(ell)
    /\ lp.points # Nil
    /\ lp.points[2].Y = Zero
    /\ lp.points[2].X.v * lp.points[2].X.v = 100 * Scale * Scale

\* an angle of (-pi, pi] brought into [0, 2 pi)
InFullTurn(angle) == IF FLt(angle, Zero) THEN FAdd(angle, Fin(TwoPi)) ELSE angle
\* C14: the angle of an ellipse a confidence constructor returns is
\* atan2(v0.y, v0.x) of the direction v0 of the larger variance, the first
\* column of the vector matrix (entries (0,0) and (1,0)), whichever of its two
\* signs the library returns, with a negative value shifted by 2 pi; so the
\* angle lies in [0, 2 pi).
C14_AngleOfLargestEigenvector ==
    (call.op \in ConfidenceOps /\ ell # Nil)
        => /\ \E s0 \in Signs, s1 \in Signs :
                 LET eigVecs == PrincipalComponents(call.data, s0, s1).vecs
                 IN  ell.angle = InFullTurn(Atan2(eigVecs[2][1], eigVecs[1][1]))
           /\ FLeq(Zero, ell.angle)
           /\ FLt(ell.angle, Fin(TwoPi))

\* C15: every Ellipse a confidence constructor returns without error for a
\* confidence in (0, 1], 1 included, has a finite a, b, angle and centre, and
\* LinePoints on it with a size of 2 or more never fails with the error of a
\* NaN or infinite coordinate.
C15_ConfidenceEllipseIsFinite ==
    (call.op \in ConfidenceOps /\ ell # Nil /\ err = "nil"
        /\ FLt(Zero, call.confidence) /\ FLeq(call.confidence, One))
        => /\ IsFinite(ell.a) /\ IsFinite(ell.b) /\ IsFinite(ell.angle)
           /\ IsFinite(ell.x) /\ IsFinite(ell.y)
           /\ (lp.called /\ lp.size >= 2)
                 => lp.err \notin {"ErrNaN", "ErrInfinity"}

\* a > 0 and b > 0, as New establishes
AxesPositive(e) == FGt(e.a, Zero) /\ FGt(e.b, Zero)
\* C16: a confidence constructor, succeeding or failing, leaves the caller's
\* dataset element for element as it was passed; and every LinePoints,
\* Eccentricity or String call, succeeding or failing, leaves the dataset and
\* the a, b, angle and centre of the Ellipse unchanged, so that a > 0 and
\* b > 0, where they held before the call, hold after it.
C16_NothingIsMutated ==
    [][ /\ (call.op = "none" /\ call'.op \in ConfidenceOps)
              => dataset' = call'.data
        /\ (call' = call)
              => /\ dataset' = dataset
                 /\ ell'.x = ell.x /\ ell'.y = ell.y
                 /\ ell'.a = ell.a /\ ell'.b = ell.b
                 /\ ell'.angle = ell.angle
                 /\ AxesPositive(ell) => AxesPositive(ell') ]_vars
\* an ellipse built from a matrix, with a > b > 0, has been asked for its
\* text, for its eccentricity (NaN) and for a curve of one point (a panic),
\* and has the axes it was built with; the matrix is as it was passed
C16_Witness ==
    /\ call.op = "NewWithDataConfidence"
    /\ ell # Nil
    /\ dataset = call.data
    /\ Len(dataset.x) = 3
    /\ str.called
    /\ str.val = String(ell)
    /\ ecc.called
    /\ IsNaN(ecc.val)
    /\ lp.called
    /\ lp.err = "panic"
    /\ FGt(ell.a, ell.b)
    /\ AxesPositive(ell)
    /\ \E r \in NewWithDataConfidence(call.data, call.confidence) : ell = r.ell
====
